---- MODULE Spec2Model ----
(***************************************************************************)
(* A model of the martian crate: the HTTP request parser of src/web/mod.rs *)
(* and the method+URI router of src/server/mod.rs.                         *)
(*                                                                         *)
(* Strings are sequences of one-character strings, so that str::split,     *)
(* to_lowercase, join and parse::<f32> are computed character by           *)
(* character, as the code computes them.                                   *)
(***************************************************************************)
EXTENDS Integers, Sequences, FiniteSets, TLC

VARIABLES
    routes,     \* Server.routes: Vec<Route>
    panicked,   \* TRUE once a call on the server has panicked
    last,       \* the last call made on the server and what it did
    raw,        \* the raw request string handed to HttpRequest::from
    parsed,     \* what HttpRequest::from did with raw
    query,      \* what HttpRequest::params did with the parsed request
    serverA,    \* a server registering a collection of bindings in one order
    serverB,    \* a server registering the same collection in another order
    probe       \* the last request delegated to serverA and serverB

vars == <<routes, panicked, last, raw, parsed, query, serverA, serverB, probe>>

(***************************************************************************)
(* Option<T>                                                               *)
(***************************************************************************)
None == [some |-> FALSE]

Some(v) == [some |-> TRUE, value |-> v]

(***************************************************************************)
(* Bounds of the model                                                     *)
(***************************************************************************)
MaxRoutes == 3

MaxBindingLen == 2

(***************************************************************************)
(* src/web/mod.rs: HttpMethod, and the response a handler returns          *)
(***************************************************************************)
HttpMethod == {"Get", "Post", "Delete", "Options"}

\* An f32 written as a decimal numeral: mant * 10^exp, with mant not a
\* multiple of ten unless it is zero.
Decimal(mant, exp) == [kind |-> "finite", neg |-> FALSE, mant |-> mant, exp |-> exp]

Version_1_1 == Decimal(11, -1)

StatusCode == {"Ok", "InternalServerError"}

HttpResponse(status_code) == [http_version |-> Version_1_1, status_code |-> status_code]

(***************************************************************************)
(* src/server/mod.rs: the router                                           *)
(***************************************************************************)
\* The function pointers handed to Binding::to. Two pointers are equal when
\* they are the same address: test_get and test_bad_get have the same body
\* and different addresses, fail_handler has another body.
Callback == {"test_get", "test_bad_get", "fail_handler"}

\* What calling the pointed-to function with a request returns.
Call(callback, request) ==
    IF callback = "fail_handler"
    THEN HttpResponse("InternalServerError")
    ELSE HttpResponse("Ok")

Uri_Foo == <<"/", "f", "o", "o">>

Uri_FooQuery == <<"/", "f", "o", "o", "?", "x", "=", "1">>

\* The URIs routes are bound to and requests are made for.
Uris == {Uri_Foo, Uri_FooQuery}

\* The methods routes are bound with (requests use every HttpMethod).
BoundMethods == {"Get", "Post"}

Route(http_method, uri, callback) ==
    [http_method |-> http_method, uri |-> uri, callback |-> callback]

\* #[derive(PartialEq)] on Route: every field is compared, the callback too.
RouteEq(r1, r2) ==
    /\ r1.http_method = r2.http_method
    /\ r1.uri = r2.uri
    /\ r1.callback = r2.callback

\* Route::bind
Bind(http_method) == [http_method |-> http_method, routes |-> <<>>]

\* Binding::to
To(binding, uri, callback) ==
    [binding EXCEPT !.routes = Append(@, Route(binding.http_method, uri, callback))]

\* Sequences over S of length at most n.
RECURSIVE SeqsUpTo(_, _)
SeqsUpTo(S, n) ==
    IF n = 0
    THEN {<<>>}
    ELSE LET shorter == SeqsUpTo(S, n - 1)
         IN  shorter \cup {Append(s, x) : s \in shorter, x \in S}

\* Bind(m).to(u1, c1).to(u2, c2)... for a sequence of <<uri, callback>> pairs.
RECURSIVE ToAll(_, _)
ToAll(binding, pairs) ==
    IF pairs = <<>>
    THEN binding
    ELSE ToAll(To(binding, Head(pairs)[1], Head(pairs)[2]), Tail(pairs))

\* The bindings of at most n routes a binding_fn can return.
Bindings(n) ==
    {ToAll(Bind(m), pairs) : m \in BoundMethods, pairs \in SeqsUpTo(Uris \X Callback, n)}

Min(a, b) == IF a < b THEN a ELSE b

\* RouteLoop putting each new route in front of the routes held, not behind.
RECURSIVE RouteLoop_PushFront(_, _)
RouteLoop_PushFront(rs, todo) ==
    IF todo = <<>>
    THEN [routes |-> rs, panicked |-> FALSE]
    ELSE IF \E i \in 1..Len(rs) : RouteEq(rs[i], Head(todo))
         THEN [routes |-> rs, panicked |-> TRUE]
         ELSE RouteLoop_PushFront(<<Head(todo)>> \o rs, Tail(todo))

\* The for_each of Server::route: each route of the binding in turn either
\* panics, when self.routes already holds an equal Route, or is pushed. The
\* routes pushed before a panic stay pushed.
RECURSIVE RouteLoop(_, _)
RouteLoop(rs, todo) ==
    IF todo = <<>>
    THEN [routes |-> rs, panicked |-> FALSE]
    ELSE IF \E i \in 1..Len(rs) : RouteEq(rs[i], Head(todo))
         THEN [routes |-> rs, panicked |-> TRUE]
         ELSE RouteLoop(Append(rs, Head(todo)), Tail(todo))

\* RouteMatches comparing the path only, with the query string cut off.
RECURSIVE UpToQuery(_)
UpToQuery(uri) ==
    IF uri = <<>> \/ Head(uri) = "?"
    THEN <<>>
    ELSE <<Head(uri)>> \o UpToQuery(Tail(uri))

RouteMatches_IgnoringQuery(route, request) ==
    /\ route.http_method = request.http_method
    /\ UpToQuery(route.uri) = UpToQuery(request.uri)

\* The predicate of the find in Server::delegate.
RouteMatches(route, request) ==
    /\ route.http_method = request.http_method
    /\ route.uri = request.uri

\* Iterator::find: the index of the first element the predicate holds of.
FindRoute(rs, request) ==
    IF \E i \in 1..Len(rs) : RouteMatches(rs[i], request)
    THEN Some(CHOOSE i \in 1..Len(rs) :
                /\ RouteMatches(rs[i], request)
                /\ \A j \in 1..(i - 1) : ~RouteMatches(rs[j], request))
    ELSE None

\* Server::delegate: the handlers called, in order, and the value returned.
DelegateOn(rs, request) ==
    LET found == FindRoute(rs, request)
    IN  IF found.some
        THEN LET callback == rs[found.value].callback
             IN  [invoked |-> <<[callback |-> callback, request |-> request]>>,
                  result |-> Some(Call(callback, request))]
        ELSE [invoked |-> <<>>, result |-> None]

\* The requests handed to delegate.
Requests ==
    [http_method : HttpMethod, uri : Uris, http_version : {Version_1_1},
     headers : {None}, body : {None}]

Idle == [op |-> "none"]

ServerInit ==
    /\ routes = <<>>
    /\ panicked = FALSE
    /\ last = Idle

\* server.route(binding_fn), binding_fn returning binding
RouteCall(binding) ==
    /\ ~panicked
    /\ Len(routes) + Len(binding.routes) <= MaxRoutes
    /\ LET done == RouteLoop(routes, binding.routes)
       IN  /\ routes' = done.routes
           /\ panicked' = done.panicked
    /\ last' = [op |-> "route"]
    /\ UNCHANGED <<raw, parsed, query, serverA, serverB, probe>>

\* server.delegate(request)
Delegate(request) ==
    /\ ~panicked
    /\ LET done == DelegateOn(routes, request)
       IN  last' = [op |-> "delegate", request |-> request,
                    invoked |-> done.invoked, result |-> done.result]
    /\ UNCHANGED <<routes, panicked, raw, parsed, query, serverA, serverB, probe>>

ParserIdle ==
    /\ raw = <<>>
    /\ parsed = Idle
    /\ query = Idle

OrderIdle ==
    /\ serverA = Idle
    /\ serverB = Idle
    /\ probe = Idle

Init ==
    /\ ServerInit
    /\ ParserIdle
    /\ OrderIdle

Next ==
    \/ \E binding \in Bindings(Min(MaxBindingLen, MaxRoutes - Len(routes))) :
            RouteCall(binding)
    \/ \E request \in Requests : Delegate(request)

Spec == Init /\ [][Next]_vars

(***************************************************************************)
(* Two servers that register one collection of routes, each in its own     *)
(* order and its own grouping into bindings, and then serve the same       *)
(* requests.                                                               *)
(***************************************************************************)
AllRoutes == {Route(m, u, c) : m \in BoundMethods, u \in Uris, c \in Callback}

\* Server::default() with a collection of routes still to register.
Fresh(collection) == [routes |-> <<>>, panicked |-> FALSE, todo |-> collection]

Range(s) == {s[i] : i \in 1..Len(s)}

\* The bindings that register some routes of todo, each once.
BindingsFrom(todo) ==
    {b \in Bindings(Min(MaxBindingLen, Cardinality(todo))) :
        /\ b.routes # <<>>
        /\ Range(b.routes) \subseteq todo
        /\ Cardinality(Range(b.routes)) = Len(b.routes)}

\* server.route(binding_fn) on one of the two servers
Register(server, binding) ==
    LET done == RouteLoop(server.routes, binding.routes)
    IN  [routes |-> done.routes, panicked |-> done.panicked,
         todo |-> server.todo \ Range(binding.routes)]

OrderInit ==
    /\ \E collection \in SUBSET AllRoutes :
        /\ collection # {}
        /\ Cardinality(collection) <= MaxRoutes
        /\ serverA = Fresh(collection)
        /\ serverB = Fresh(collection)
    /\ probe = Idle
    /\ ServerInit
    /\ ParserIdle

RegisterA(binding) ==
    /\ ~serverA.panicked
    /\ serverA' = Register(serverA, binding)
    /\ UNCHANGED <<routes, panicked, last, raw, parsed, query, serverB, probe>>

\* The second server is built once the first one is.
RegisterB(binding) ==
    /\ serverA.todo = {}
    /\ ~serverA.panicked
    /\ ~serverB.panicked
    /\ serverB' = Register(serverB, binding)
    /\ UNCHANGED <<routes, panicked, last, raw, parsed, query, serverA, probe>>

\* delegate(request) on both servers, every registration having succeeded
DelegateBoth(request) ==
    /\ serverA.todo = {} /\ ~serverA.panicked
    /\ serverB.todo = {} /\ ~serverB.panicked
    /\ probe' = [op |-> "delegate", request |-> request,
                 onA |-> DelegateOn(serverA.routes, request),
                 onB |-> DelegateOn(serverB.routes, request)]
    /\ UNCHANGED <<routes, panicked, last, raw, parsed, query, serverA, serverB>>

OrderNext ==
    \/ \E binding \in BindingsFrom(serverA.todo) : RegisterA(binding)
    \/ \E binding \in BindingsFrom(serverB.todo) : RegisterB(binding)
    \/ \E request \in Requests : DelegateBoth(request)

SpecOrder == OrderInit /\ [][OrderNext]_vars

(***************************************************************************)
(* Strings: str::split, join, to_lowercase, parse::<f32>                   *)
(***************************************************************************)
CRLF == <<"\r", "\n">>

StartsWith(s, pat) == Len(s) >= Len(pat) /\ SubSeq(s, 1, Len(pat)) = pat

Drop(s, n) == SubSeq(s, n + 1, Len(s))

\* The characters of s before the first occurrence of pat (all of s if none).
RECURSIVE Before(_, _)
Before(s, pat) ==
    IF s = <<>> \/ StartsWith(s, pat)
    THEN <<>>
    ELSE <<Head(s)>> \o Before(Tail(s), pat)

Contains(s, pat) == Len(Before(s, pat)) + Len(pat) <= Len(s)

\* str::split(pat).collect::<Vec<&str>>(), pat not empty: the pieces between
\* the occurrences of pat, found left to right without overlap; one piece
\* more than there are occurrences, so never an empty vector.
RECURSIVE Split(_, _)
Split(s, pat) ==
    LET first == Before(s, pat)
    IN  IF Contains(s, pat)
        THEN <<first>> \o Split(Drop(s, Len(first) + Len(pat)), pat)
        ELSE <<s>>

\* [&str]::join(sep)
RECURSIVE Join(_, _)
Join(pieces, sep) ==
    IF pieces = <<>>
    THEN <<>>
    ELSE IF Len(pieces) = 1
         THEN pieces[1]
         ELSE pieces[1] \o sep \o Join(Tail(pieces), sep)

UpperCase == <<"A", "B", "C", "D", "E", "F", "G", "H", "I", "J", "K", "L", "M", "N", "O", "P", "Q", "R", "S", "T", "U", "V", "W", "X", "Y", "Z">>

LowerCase == <<"a", "b", "c", "d", "e", "f", "g", "h", "i", "j", "k", "l", "m", "n", "o", "p", "q", "r", "s", "t", "u", "v", "w", "x", "y", "z">>

\* char::to_lowercase on the characters of the model (all ASCII)
LowerChar(c) ==
    IF \E i \in 1..Len(UpperCase) : UpperCase[i] = c
    THEN LowerCase[CHOOSE i \in 1..Len(UpperCase) : UpperCase[i] = c]
    ELSE c

\* ToLowercase leaving the case as it is.
ToLowercase_CaseKept(s) == s

\* str::to_lowercase
ToLowercase(s) == [i \in 1..Len(s) |-> LowerChar(s[i])]

DigitChars == <<"0", "1", "2", "3", "4", "5", "6", "7", "8", "9">>

IsDigit(c) == \E i \in 1..Len(DigitChars) : DigitChars[i] = c

DigitValue(c) == (CHOOSE i \in 1..Len(DigitChars) : DigitChars[i] = c) - 1

\* The longest prefix of s made of digits.
RECURSIVE LeadingDigits(_)
LeadingDigits(s) ==
    IF s = <<>> \/ ~IsDigit(Head(s))
    THEN <<>>
    ELSE <<Head(s)>> \o LeadingDigits(Tail(s))

\* The number a string of digits writes (0 for the empty string).
RECURSIVE DigitsValue(_)
DigitsValue(digits) ==
    IF digits = <<>>
    THEN 0
    ELSE DigitsValue(SubSeq(digits, 1, Len(digits) - 1)) * 10
             + DigitValue(digits[Len(digits)])

\* mant * 10^exp with the factors of ten moved from mant to exp.
RECURSIVE Normalised(_, _, _)
Normalised(neg, mant, exp) ==
    IF mant = 0
    THEN [kind |-> "finite", neg |-> FALSE, mant |-> 0, exp |-> 0]
    ELSE IF mant % 10 = 0
         THEN Normalised(neg, mant \div 10, exp + 1)
         ELSE [kind |-> "finite", neg |-> neg, mant |-> mant, exp |-> exp]

Ok(v) == [ok |-> TRUE, value |-> v]

Err(e) == [ok |-> FALSE, error |-> e]

HasSign(s) == s # <<>> /\ (Head(s) = "+" \/ Head(s) = "-")

\* str::parse::<f32>: Sign? ( 'inf' | 'infinity' | 'nan' | Number ), with
\* Number ::= ( Digit+ | Digit+ '.' Digit* | Digit* '.' Digit+ ) Exp? and
\* Exp ::= 'e' Sign? Digit+, letters in either case. The value is kept as the
\* decimal written; the model's numerals are short enough for f32 to tell
\* them apart.
ParseF32(s) ==
    LET neg == s # <<>> /\ Head(s) = "-"
        unsigned == ToLowercase(IF HasSign(s) THEN Tail(s) ELSE s)
        int == LeadingDigits(unsigned)
        afterInt == Drop(unsigned, Len(int))
        hasPoint == afterInt # <<>> /\ Head(afterInt) = "."
        frac == IF hasPoint THEN LeadingDigits(Tail(afterInt)) ELSE <<>>
        afterFrac == IF hasPoint THEN Drop(afterInt, 1 + Len(frac)) ELSE afterInt
        hasExp == afterFrac # <<>> /\ Head(afterFrac) = "e"
        expText == IF hasExp THEN Tail(afterFrac) ELSE <<>>
        expNeg == expText # <<>> /\ Head(expText) = "-"
        expDigits == IF HasSign(expText) THEN Tail(expText) ELSE expText
        exp == IF expNeg THEN 0 - DigitsValue(expDigits) ELSE DigitsValue(expDigits)
    IN  IF unsigned = <<"i", "n", "f">> \/ unsigned = <<"i", "n", "f", "i", "n", "i", "t", "y">>
        THEN Ok([kind |-> "inf", neg |-> neg])
        ELSE IF unsigned = <<"n", "a", "n">>
        THEN Ok([kind |-> "nan"])
        ELSE IF Len(int) + Len(frac) = 0
        THEN Err("invalid float literal")
        ELSE IF hasExp
        THEN IF expDigits # <<>> /\ LeadingDigits(expDigits) = expDigits
             THEN Ok(Normalised(neg, DigitsValue(int \o frac), exp - Len(frac)))
             ELSE Err("invalid float literal")
        ELSE IF afterFrac = <<>>
        THEN Ok(Normalised(neg, DigitsValue(int \o frac), 0 - Len(frac)))
        ELSE Err("invalid float literal")

(***************************************************************************)
(* src/web/mod.rs: the request parser                                      *)
(***************************************************************************)
\* A call that returned v, and a call that panicked.
Returned(v) == [kind |-> "ok", value |-> v]

Panicked(why) == [kind |-> "panic", why |-> why]

\* HttpMethod::from
HttpMethodFrom(method_string) ==
    LET lower == ToLowercase(method_string)
    IN  IF lower = <<"g", "e", "t">> THEN Ok("Get")
        ELSE IF lower = <<"p", "o", "s", "t">> THEN Ok("Post")
        ELSE IF lower = <<"d", "e", "l", "e", "t", "e">> THEN Ok("Delete")
        ELSE IF lower = <<"o", "p", "t", "i", "o", "n", "s">> THEN Ok("Options")
        ELSE Err("Given cannot be converted to HttpMethod")

\* get_http_version: it indexes the second piece and expect()s the parse, so
\* it returns Ok or panics, and never returns Err.
GetHttpVersion(full_version_string) ==
    LET version_split == Split(full_version_string, <<"/">>)
    IN  IF Len(version_split) < 2
        THEN Panicked("index out of bounds")
        ELSE LET number == ParseF32(version_split[2])
             IN  IF number.ok
                 THEN Returned(Ok(number.value))
                 ELSE Panicked("Could not get version float")

\* HashMap::insert
Insert(map, key, value) ==
    [k \in DOMAIN map \cup {key} |-> IF k = key THEN value ELSE map[k]]

EmptyMap == [k \in {} |-> <<>>]

\* The loop of get_headers_from_lines over lines[1..], from 0-based index i
\* on: it stops at an empty line, and indexes the second piece of the split
\* of every other line.
RECURSIVE HeadersLoop(_, _, _)
HeadersLoop(lines, i, headers) ==
    IF i >= Len(lines) \/ lines[i + 1] = <<>>
    THEN Returned(headers)
    ELSE LET line_split == Split(lines[i + 1], <<":", " ">>)
         IN  IF Len(line_split) < 2
             THEN Panicked("index out of bounds")
             ELSE HeadersLoop(lines, i + 1,
                              Insert(headers, line_split[1], line_split[2]))

\* get_headers_from_lines
GetHeadersFromLines(lines) ==
    LET looped == HeadersLoop(lines, 1, EmptyMap)
    IN  IF looped.kind = "panic"
        THEN looped
        ELSE IF DOMAIN looped.value # {}
             THEN Returned(Some(looped.value))
             ELSE Returned(None)

\* The loop of get_body_begin_index from 0-based index i on (lines[i] of the
\* code is lines[i + 1] here).
RECURSIVE BodyLoop(_, _)
BodyLoop(lines, i) ==
    IF i + 1 >= Len(lines)
    THEN None
    ELSE IF lines[i + 1] = <<>> /\ lines[i + 2] # <<>>
         THEN Some(i + 1)
         ELSE BodyLoop(lines, i + 1)

\* GetBodyBeginIndex taking the line after the first blank line, whatever that
\* line is.
RECURSIVE BodyLoop_AnyNextLine(_, _)
BodyLoop_AnyNextLine(lines, i) ==
    IF i + 1 >= Len(lines)
    THEN None
    ELSE IF lines[i + 1] = <<>>
         THEN Some(i + 1)
         ELSE BodyLoop_AnyNextLine(lines, i + 1)

GetBodyBeginIndex_AnyNextLine(lines) == BodyLoop_AnyNextLine(lines, 0)

\* get_body_begin_index: a 0-based index into lines
GetBodyBeginIndex(lines) == BodyLoop(lines, 0)

\* The body field of HttpRequest::from: lines[i..].join("\r\n")
BodyOf(lines) ==
    LET begin == GetBodyBeginIndex(lines)
    IN  IF begin.some
        THEN Some(Join(Drop(lines, begin.value), CRLF))
        ELSE None

\* HttpRequest::from: the fields are evaluated in the order written, and the
\* first unwrap or index that fails panics.
HttpRequestFrom(raw_request) ==
    LET lines == Split(raw_request, CRLF)
        status_line == lines[1]
        status_line_split == Split(status_line, <<" ">>)
        http_method == HttpMethodFrom(status_line_split[1])
        http_version == GetHttpVersion(status_line_split[3])
        headers == GetHeadersFromLines(lines)
    IN  IF ~http_method.ok
        THEN Panicked("called Result::unwrap() on an Err value")
        ELSE IF Len(status_line_split) < 3
        THEN Panicked("index out of bounds")
        ELSE IF http_version.kind = "panic"
        THEN http_version
        ELSE IF headers.kind = "panic"
        THEN headers
        ELSE Returned([http_method |-> http_method.value,
                       uri |-> status_line_split[2],
                       http_version |-> http_version.value.value,
                       headers |-> headers.value,
                       body |-> BodyOf(lines)])

\* The loop of HttpRequest::params over the pieces between the &.
RECURSIVE ParamsLoop(_, _)
ParamsLoop(params, param_map) ==
    IF params = <<>>
    THEN Returned(param_map)
    ELSE LET param_split == Split(Head(params), <<"=">>)
         IN  IF Len(param_split) < 2
             THEN Panicked("index out of bounds")
             ELSE ParamsLoop(Tail(params),
                             Insert(param_map, param_split[1], param_split[2]))

\* HttpRequest::params
Params(request) ==
    LET params_split == Split(request.uri, <<"?">>)
    IN  IF Len(params_split) < 2
        THEN Returned(None)
        ELSE LET looped == ParamsLoop(Split(params_split[2], <<"&">>), EmptyMap)
             IN  IF looped.kind = "panic"
                 THEN looped
                 ELSE IF DOMAIN looped.value # {}
                      THEN Returned(Some(looped.value))
                      ELSE Returned(None)

(***************************************************************************)
(* The raw requests handed to the parser                                   *)
(***************************************************************************)
MaxLines == 3

Space == <<" ">>

\* Spellings of the four method names, by the variant they name.
MethodTokens ==
    [Get |-> {<<"G", "E", "T">>, <<"g", "e", "t">>, <<"G", "e", "T">>},
     Post |-> {<<"P", "O", "S", "T">>, <<"p", "o", "s", "t">>},
     Delete |-> {<<"D", "E", "L", "E", "T", "E">>, <<"D", "e", "l", "e", "t", "e">>},
     Options |-> {<<"O", "P", "T", "I", "O", "N", "S">>, <<"o", "P", "t", "I", "o", "N", "s">>}]

UriTokens == {<<"/">>, <<"/", "h", "?", "a", "=", "b", "&", "c", "=", "d">>}

\* <MAJOR>.<MINOR> numerals, with the number each writes.
VersionNumerals ==
    {[text |-> <<"1", ".", "1">>, number |-> Decimal(11, -1)],
     [text |-> <<"1", ".", "0">>, number |-> Decimal(1, 0)],
     [text |-> <<"2", ".", "0">>, number |-> Decimal(2, 0)]}

StatusLine(method, uri, numeral) ==
    method \o Space \o uri \o Space \o <<"H", "T", "T", "P", "/">> \o numeral

WellFormedStatusLines ==
    {StatusLine(m, u, v.text) :
        m \in UNION {MethodTokens[variant] : variant \in HttpMethod},
        u \in UriTokens, v \in VersionNumerals}

\* Status lines with a token missing, unknown, unparseable or in excess, and
\* URIs whose query string has pieces of every shape.
OtherStatusLines ==
    {<<>>, <<"G", "E", "T">>, <<"G", "E", "T", " ", "/">>, <<"G", "E", "T", " ", " ", "/", " ", "H", "T", "T", "P", "/", "1", ".", "1">>, <<"G", "E", "T", " ", "/", " ", "H", "T", "T", "P", "/", "1", ".", "1", " ", "x">>,
     <<"d", "o", " ", "/", " ", "H", "T", "T", "P", "/", "1", ".", "1">>, <<"G", "E", "T", "S", " ", "/", " ", "H", "T", "T", "P", "/", "1", ".", "1">>, <<" ", "/", " ", "H", "T", "T", "P", "/", "1", ".", "1">>,
     <<"G", "E", "T", " ", "/", " ", "H", "T", "T", "P", "/", "G">>, <<"G", "E", "T", " ", "/", " ", "H", "T", "T", "P", "-", "1", ".", "1">>, <<"G", "E", "T", " ", "/", " ", "H", "T", "T", "P", "/">>,
     <<"G", "E", "T", " ", "/", " ", "H", "T", "T", "P", "/", "1", ".", "1", "/", "9">>, <<"G", "E", "T", " ", "/", " ", "x", "/", "1", "e", "1">>,
     <<"G", "E", "T", " ", "/", "h", "?", "a", "=", "b", "=", "c", " ", "H", "T", "T", "P", "/", "1", ".", "1">>, <<"G", "E", "T", " ", "/", "h", "?", " ", "H", "T", "T", "P", "/", "1", ".", "1">>, <<"G", "E", "T", " ", "/", "h", "?", "a", " ", "H", "T", "T", "P", "/", "1", ".", "1">>,
     <<"G", "E", "T", " ", "/", "h", "?", "a", "=", "b", "&", "a", "=", "c", " ", "H", "T", "T", "P", "/", "1", ".", "1">>, <<"S", "T", "A", "T", "U", "S", "_", "L", "I", "N", "E">>}

StatusLines == WellFormedStatusLines \cup OtherStatusLines

\* The lines after the status line: the empty line, headers (one with `: `
\* in its value and a key seen before), and a line with no `: `.
OtherLines == {<<>>, <<"A", ":", " ", "b">>, <<"A", ":", " ", "c", ":", " ", "d">>, <<"B", ":", " ", "e">>, <<"x", "y">>}

RawRequests ==
    {Join(<<status>> \o rest, CRLF) :
        status \in StatusLines, rest \in SeqsUpTo(OtherLines, MaxLines)}

ParseInit ==
    /\ raw \in RawRequests
    /\ parsed = Idle
    /\ query = Idle
    /\ ServerInit
    /\ OrderIdle

\* HttpRequest::from(raw)
From ==
    /\ parsed = Idle
    /\ parsed' = [op |-> "from", outcome |-> HttpRequestFrom(raw)]
    /\ UNCHANGED <<raw, query, routes, panicked, last, serverA, serverB, probe>>

\* get_headers_from_lines(&lines), lines being raw.split("\r\n"), as the
\* tests call it
HeadersCall ==
    /\ parsed = Idle
    /\ parsed' = [op |-> "get_headers_from_lines",
                  outcome |-> GetHeadersFromLines(Split(raw, CRLF))]
    /\ UNCHANGED <<raw, query, routes, panicked, last, serverA, serverB, probe>>

\* get_body_begin_index(&lines), as the tests call it
BodyBeginCall ==
    /\ parsed = Idle
    /\ parsed' = [op |-> "get_body_begin_index",
                  outcome |-> Returned(GetBodyBeginIndex(Split(raw, CRLF)))]
    /\ UNCHANGED <<raw, query, routes, panicked, last, serverA, serverB, probe>>

\* request.params(), request being what HttpRequest::from returned
ParamsCall ==
    /\ parsed.op = "from"
    /\ parsed.outcome.kind = "ok"
    /\ query = Idle
    /\ query' = [op |-> "params", outcome |-> Params(parsed.outcome.value)]
    /\ UNCHANGED <<raw, parsed, routes, panicked, last, serverA, serverB, probe>>

ParseNext ==
    \/ From
    \/ HeadersCall
    \/ BodyBeginCall
    \/ ParamsCall

SpecParse == ParseInit /\ [][ParseNext]_vars

(***************************************************************************)
(* The router's claims                                                     *)
(***************************************************************************)
SameBinding(r1, r2) == r1.http_method = r2.http_method /\ r1.uri = r2.uri

\* The binding offers a route whose (method, URI) is that of a route of rs or
\* of an earlier route of the same binding.
OffersBoundBinding(rs, binding) ==
    \E i \in 1..Len(binding.routes) :
        \/ \E j \in 1..Len(rs) : SameBinding(rs[j], binding.routes[i])
        \/ \E j \in 1..(i - 1) : SameBinding(binding.routes[j], binding.routes[i])

\* C1: a route() call that offers a route whose (method, URI) is already
\* registered, by an earlier call or earlier in the same call, panics, whether
\* the handlers are the same or not.
C1_DuplicateBindingIsFatal ==
    [][\A binding \in Bindings(MaxBindingLen) :
        (RouteCall(binding) /\ OffersBoundBinding(routes, binding)) => panicked']_vars

\* C2: in every reachable state the route collection holds at most one route
\* for each (method, URI) pair.
C2_AtMostOneRoutePerBinding ==
    \A i, j \in 1..Len(routes) : SameBinding(routes[i], routes[j]) => i = j

\* C3: delegate() of a request whose (method, URI) some route A is registered
\* for invokes A exactly once with that request, invokes nothing else, and
\* returns the response A produced.
C3_DelegateInvokesTheRegisteredHandler ==
    last.op = "delegate" =>
        \A i \in 1..Len(routes) :
            SameBinding(routes[i], last.request) =>
                /\ last.invoked =
                       <<[callback |-> routes[i].callback, request |-> last.request]>>
                /\ last.result = Some(Call(routes[i].callback, last.request))

NoRouteFor(rs, request) ==
    \A i \in 1..Len(rs) :
        ~(rs[i].http_method = request.http_method /\ rs[i].uri = request.uri)

\* C4: delegate() of a request no route has both the method and the exactly
\* equal URI string of returns None, invokes no handler and does not panic.
C4_UnmatchedDelegateIsNone ==
    (last.op = "delegate" /\ NoRouteFor(routes, last.request)) =>
        /\ last.result = None
        /\ last.invoked = <<>>
        /\ ~panicked

\* C4's case: with a GET route for /foo registered, a GET for /foo?x=1 and a
\* POST for /foo both came back not found.
C4_Witness_QueryString ==
    /\ last.op = "delegate"
    /\ last.request.http_method = "Get"
    /\ last.request.uri = Uri_FooQuery
    /\ \E i \in 1..Len(routes) : routes[i].http_method = "Get" /\ routes[i].uri = Uri_Foo
    /\ \E i \in 1..Len(routes) : routes[i].http_method = "Post" /\ routes[i].uri = Uri_FooQuery
    /\ last.result = None

\* C10: two servers that registered the same routes in different orders, both
\* without a panic, answer every request alike.
C10_RegistrationOrderIsIrrelevant ==
    probe.op = "delegate" => probe.onA = probe.onB

\* rs is the beginning of rs2: nothing removed, reordered or replaced.
IsPrefix(rs, rs2) == Len(rs) <= Len(rs2) /\ SubSeq(rs2, 1, Len(rs)) = rs

\* C11: delegate() leaves the routes as they are, and a route() call that
\* does not panic leaves the routes held where they are, adding only at the
\* end, so every request delegate() invokes a handler for is still delegated
\* to that handler, with the same result, after the call.
C11_DispatchStableUnderLaterRegistrations ==
    [][/\ last'.op = "delegate" => routes' = routes
       /\ (last'.op = "route" /\ ~panicked') =>
            /\ IsPrefix(routes, routes')
            /\ \A request \in Requests :
                  DelegateOn(routes, request).invoked # <<>> =>
                      DelegateOn(routes', request) = DelegateOn(routes, request)]_vars

\* C11's case: a second handler was registered for a (method, URI) that
\* already had one, and delegate() invoked the first.
C11_Witness_LaterRouteSameBinding ==
    /\ Len(routes) >= 2
    /\ routes[1].http_method = routes[2].http_method
    /\ routes[1].uri = routes[2].uri
    /\ routes[1].callback # routes[2].callback
    /\ ~panicked
    /\ last.op = "delegate"
    /\ last.request.http_method = routes[1].http_method
    /\ last.request.uri = routes[1].uri
    /\ last.invoked = <<[callback |-> routes[1].callback, request |-> last.request]>>

(***************************************************************************)
(* The parser's claims                                                     *)
(***************************************************************************)
\* C5: HttpRequest::from returns a request or a typed failure for every raw
\* string, and never panics.
C5_FromNeverPanics ==
    parsed.op = "from" => parsed.outcome.kind # "panic"

\* C6: a well-formed status line followed by \r\n parses to the variant the
\* method token names in any case, the URI token itself, and the number
\* written after HTTP/.
C6_StatusLineRoundTrip ==
    \A variant \in HttpMethod : \A m \in MethodTokens[variant] :
        \A u \in UriTokens : \A v \in VersionNumerals :
            (parsed.op = "from" /\ raw = StatusLine(m, u, v.text) \o CRLF) =>
                /\ parsed.outcome.kind = "ok"
                /\ parsed.outcome.value.http_method = variant
                /\ parsed.outcome.value.uri = u
                /\ parsed.outcome.value.http_version = v.number

\* C6's case: a mixed-case method token, a URI with a query string.
C6_Witness_MixedCase ==
    /\ raw = <<"o", "P", "t", "I", "o", "N", "s", " ", "/", "h", "?", "a", "=", "b", "&", "c", "=", "d", " ", "H", "T", "T", "P", "/", "2", ".", "0", "\r", "\n">>
    /\ parsed.op = "from"
    /\ parsed.outcome.kind = "ok"
    /\ parsed.outcome.value.http_method = "Options"

HeaderSeparator == <<":", " ">>

\* The headers as the claim builds them from the lines from 0-based index i
\* on: key the text before the first `: `, value all the text after it.
RECURSIVE HeadersWithWholeValues(_, _, _)
HeadersWithWholeValues(lines, i, headers) ==
    IF i >= Len(lines) \/ lines[i + 1] = <<>>
    THEN headers
    ELSE LET key == Before(lines[i + 1], HeaderSeparator)
             value == Drop(lines[i + 1], Len(key) + Len(HeaderSeparator))
         IN  HeadersWithWholeValues(lines, i + 1, Insert(headers, key, value))

ClaimedHeaders(lines) ==
    LET headers == HeadersWithWholeValues(lines, 1, EmptyMap)
    IN  IF DOMAIN headers = {} THEN None ELSE Some(headers)

\* C7: the headers are built from lines 1.. up to the first empty line, each
\* line giving the text before its first `: ` as key and all the text after
\* that `: ` as value; no header line means absent.
C7_HeaderValuesKeptWhole ==
    /\ (parsed.op = "from" /\ parsed.outcome.kind = "ok") =>
          parsed.outcome.value.headers = ClaimedHeaders(Split(raw, CRLF))
    /\ (parsed.op = "get_headers_from_lines" /\ parsed.outcome.kind = "ok") =>
          parsed.outcome.value = ClaimedHeaders(Split(raw, CRLF))

\* The 0-based indices of the blank lines followed by a non-blank line.
BlankThenNonBlank(lines) ==
    {i \in 0..(Len(lines) - 2) : lines[i + 1] = <<>> /\ lines[i + 2] # <<>>}

Least(S) == CHOOSE i \in S : \A j \in S : i <= j

\* C8: with i the first index of a blank line followed by a non-blank line,
\* the body is lines i+1.. rejoined with \r\n (splitting it on \r\n gives
\* those lines back); without such an i the body is absent.
C8_BodyFromFirstBlankThenNonBlank ==
    LET lines == Split(raw, CRLF)
        starts == BlankThenNonBlank(lines)
    IN  /\ (parsed.op = "from" /\ parsed.outcome.kind = "ok") =>
              LET body == parsed.outcome.value.body
              IN  IF starts = {}
                  THEN body = None
                  ELSE /\ body.some
                       /\ Split(body.value, CRLF) =
                              SubSeq(lines, Least(starts) + 2, Len(lines))
        /\ parsed.op = "get_body_begin_index" =>
              parsed.outcome.value =
                  IF starts = {} THEN None ELSE Some(Least(starts) + 1)

\* C8's cases: the first blank line is followed by a blank one, so the body
\* starts after the second; and the body keeps its own blank lines.
C8_Witness_SecondBlank ==
    /\ raw = <<"G", "E", "T", " ", "/", " ", "H", "T", "T", "P", "/", "1", ".", "1", "\r", "\n", "\r", "\n", "\r", "\n", "x", "y">>
    /\ parsed.op = "from"
    /\ parsed.outcome.kind = "ok"
    /\ parsed.outcome.value.body = Some(<<"x", "y">>)

QueryMark == <<"?">>

\* The parameters as the claim builds them from the pieces between the &:
\* key the text before the first `=`, value all the text after it.
RECURSIVE ParamsWithWholeValues(_, _)
ParamsWithWholeValues(pieces, param_map) ==
    IF pieces = <<>>
    THEN param_map
    ELSE LET key == Before(Head(pieces), <<"=">>)
             value == Drop(Head(pieces), Len(key) + 1)
         IN  ParamsWithWholeValues(Tail(pieces), Insert(param_map, key, value))

ClaimedParams(uri) ==
    IF ~Contains(uri, QueryMark)
    THEN None
    ELSE LET segment == Drop(uri, Len(Before(uri, QueryMark)) + 1)
             param_map == ParamsWithWholeValues(Split(segment, <<"&">>), EmptyMap)
         IN  IF DOMAIN param_map = {} THEN None ELSE Some(param_map)

\* C9: params() is absent without a `?`; otherwise each piece between the &
\* maps the text before its first `=` to all the text after it, later pieces
\* overwriting earlier ones, and an empty mapping is returned as absent.
C9_ParamValuesKeptWhole ==
    (query.op = "params" /\ query.outcome.kind = "ok") =>
        /\ query.outcome.value = ClaimedParams(parsed.outcome.value.uri)
        /\ query.outcome.value.some => DOMAIN query.outcome.value.value # {}

====
